---- MODULE Spec2Model ----
(***************************************************************************)
(* A model of unreson's StateObject (src/dist/unreson.js): a JSON-shaped   *)
(* tree behind a deep proxy, a linear history of yajsondiff changes with a *)
(* cursor, undo/redo, queue/unqueue batching and freeze/thaw.              *)
(*                                                                         *)
(* A tree is flattened to a function from paths to values: a path holds a  *)
(* scalar, the marker Container (the path holds a nested object whose      *)
(* fields are the child paths) or Undefined (the field is absent).         *)
(***************************************************************************)
EXTENDS Integers, Sequences, FiniteSets, TLC

\* Bounds of the model.
MaxChanges == 2    \* no commit is attempted at or beyond this position
MaxQueues == 1     \* calls to queue() in one behaviour
MaxRun == 4        \* length of the logged run of writes and undos
MaxEvents == 2     \* the count of change events in a batch saturates here
MaxCalls == 2      \* calls of undo() and redo() made on two instances to compare them

\* ---------------------------------------------------------------- values
Undefined == "undefined"
Container == "{}"
Null == "null"
Scalars == {"2"}

Paths == {"c", "c.x"}
Parent(p) == IF p = "c.x" THEN "c" ELSE ""

\* null / undefined in a slot that otherwise holds a tree
NullTree == [p \in Paths |-> Null]
EmptyTree == [p \in Paths |-> Undefined]

\* a diff that found no difference (yajsondiff returns undefined)
NullChange == {}

\* The values a caller assigns: a scalar, {} or {x: scalar}.
Values ==
    [v : Scalars, x : {Undefined}]
        \cup [v : {Container}, x : Scalars \cup {Undefined}]

\* The objects handed to the constructor.
Tree(c, x) == [p \in Paths |-> IF p = "c" THEN c ELSE x]

InitTrees ==
    { Tree(Container, Undefined), Tree("2", Undefined), NullTree }

\* ------------------------------------------------------------ cloneObject
\* Copies key by key, recursing into the values that are objects only: the
\* fields below a value that is no object are not visited.
cloneObject(object) ==
    IF object = NullTree THEN object
    ELSE [p \in Paths |->
            IF Parent(p) = "" THEN object[p]
            ELSE IF object[Parent(p)] = Container THEN object[p] ELSE Undefined]

\* Reflect.set(obj, prop, value) on the raw object that owns `path`.
ReflectSet(tree, path, value) ==
    [p \in Paths |->
        IF p = path THEN value.v
        ELSE IF Parent(p) = path THEN (IF value.v = Container THEN value.x ELSE Undefined)
        ELSE tree[p]]

\* ------------------------------------------------- yajsondiff (provider)
\* A change is the set of <<path, old, new>> of the paths that differ; a
\* path below a container that was replaced or created is part of it.
diff(before, after) ==
    { <<p, before[p], after[p]>> : p \in
        { q \in Paths :
            \/ before[q] # after[q]
            \/ /\ Parent(q) # ""
               /\ before[Parent(q)] # after[Parent(q)]
               /\ Container \in {before[Parent(q)], after[Parent(q)]} } }

Patch(tree, change, from, to) ==
    IF \A e \in change : tree[e[1]] = e[from]
    THEN [p \in Paths |->
            IF \E e \in change : e[1] = p
            THEN (CHOOSE e \in change : e[1] = p)[to]
            ELSE tree[p]]
    ELSE NullTree

applyChanges(tree, change) == Patch(tree, change, 2, 3)
revertChanges(tree, change) == Patch(tree, change, 3, 2)

\* ------------------------------------------------------------ StateObject
VARIABLES
    state,            \* this._state (the raw tree behind the proxy)
    changes,          \* this.changes
    changePosition,   \* this.changePosition
    queuedState,      \* this._queuedState
    queueConfig,      \* this._queueConfig.emit
    frozen,           \* this._frozen
    emitted,          \* the events the last call emitted, in order
    thrown,           \* whether the last call threw
    baseline,         \* the object the constructor was given
    op,               \* the name of the last call
    run,              \* the calls so far, while they are only writes and undos
    batch,            \* what happened since the last queue()
    queues,           \* the number of calls to queue() so far
    view              \* the proxy of state.c the caller holds: "none", "live"
                      \* (its target is the object in the tree) or "stale"
                      \* (its target is the object of a tree since replaced)

vars == <<state, changes, changePosition, queuedState, queueConfig, frozen,
          emitted, thrown, baseline, op, run, batch, queues, view>>

Self ==
    [state |-> state, changes |-> changes, changePosition |-> changePosition,
     queuedState |-> queuedState, queueConfig |-> queueConfig, frozen |-> frozen]

\* emit(type, change), with what a listener finds on the instance when called
Event(type, change, so) ==
    [type |-> type, change |-> change,
     position |-> so.changePosition, state |-> so.state]
Result(so, ev, err) == [so |-> so, ev |-> ev, err |-> err]

\* set state(v)
setState(v) ==
    LET cloned == cloneObject(v) IN IF cloned = NullTree THEN EmptyTree ELSE cloned

\* constructor(obj)
construct(obj) ==
    [state |-> setState(obj), changes |-> <<>>, changePosition |-> 0,
     queuedState |-> NullTree, queueConfig |-> Undefined, frozen |-> FALSE]

Min(a, b) == IF a < b THEN a ELSE b

\* add() with a splice that deletes nothing: splice(changePosition++, 0, change)
addWithoutTruncate(so, change) ==
    [so EXCEPT
        !.changes = SubSeq(so.changes, 1, Min(so.changePosition, Len(so.changes)))
                        \o <<change>>
                        \o SubSeq(so.changes, so.changePosition + 1, Len(so.changes)),
        !.changePosition = so.changePosition + 1]

\* add(change): this.changes.splice(this.changePosition++, this.changes.length, change)
add(so, change) ==
    [so EXCEPT
        !.changes = SubSeq(so.changes, 1, Min(so.changePosition, Len(so.changes)))
                        \o <<change>>,
        !.changePosition = so.changePosition + 1]

\* queue(conf)
queue(so, conf) ==
    Result([so EXCEPT !.queueConfig = IF conf = Undefined THEN "false" ELSE conf,
                      !.queuedState = cloneObject(so.state)],
           <<>>, FALSE)

\* unqueue() with the arguments of diff swapped
unqueueDiffSwapped(so) ==
    IF so.queuedState = NullTree THEN Result(so, <<>>, TRUE)
    ELSE LET change == diff(so.state, so.queuedState) IN
         IF change # NullChange
         THEN Result([add(so, change) EXCEPT !.queuedState = NullTree],
                     <<Event("change", change, add(so, change))>>, FALSE)
         ELSE Result([so EXCEPT !.queuedState = NullTree], <<>>, FALSE)

\* unqueue() that leaves _queuedState as it is
unqueueKeepsQueued(so) ==
    IF so.queuedState = NullTree THEN Result(so, <<>>, TRUE)
    ELSE LET change == diff(so.queuedState, so.state) IN
         IF change # NullChange
         THEN Result(add(so, change),
                     <<Event("change", change, add(so, change))>>, FALSE)
         ELSE Result(so, <<>>, FALSE)

\* unqueue()
unqueue(so) ==
    IF so.queuedState = NullTree THEN Result(so, <<>>, TRUE)
    ELSE LET change == diff(so.queuedState, so.state) IN
         IF change # NullChange
         THEN Result([add(so, change) EXCEPT !.queuedState = NullTree],
                     <<Event("change", change, add(so, change))>>, FALSE)
         ELSE Result([so EXCEPT !.queuedState = NullTree], <<>>, FALSE)

\* undo() that never assigns the reverted tree to this.state
undoWithoutAssign(so) ==
    IF so.changePosition <= 0 \/ so.changePosition > Len(so.changes)
    THEN Result(so, <<>>, FALSE)
    ELSE LET pos == so.changePosition - 1
             change == so.changes[pos + 1]
             changedState == revertChanges(so.state, change)
         IN  IF changedState = NullTree
             THEN Result([so EXCEPT !.changePosition = pos], <<>>, FALSE)
             ELSE Result([so EXCEPT !.changePosition = pos],
                         <<Event("undo", change, [so EXCEPT !.changePosition = pos])>>,
                         FALSE)

\* undo() whose first test is changePosition < 0: at position 0 it reads
\* changes[-1], which is undefined
undoOffByOne(so) ==
    IF so.changePosition < 0 \/ so.changePosition > Len(so.changes)
    THEN Result(so, <<>>, FALSE)
    ELSE LET pos == so.changePosition - 1
             change == IF pos + 1 \in 1..Len(so.changes) THEN so.changes[pos + 1]
                                                         ELSE NullChange
             changedState == revertChanges(so.state, change)
         IN  IF changedState = NullTree
             THEN Result([so EXCEPT !.changePosition = pos], <<>>, FALSE)
             ELSE LET undone == [so EXCEPT !.changePosition = pos,
                                           !.state = setState(changedState)]
                  IN  Result(undone, <<Event("undo", change, undone)>>, FALSE)

\* undo() that emits before it assigns the reverted tree
undoEmitsBeforeAssign(so) ==
    IF so.changePosition <= 0 \/ so.changePosition > Len(so.changes)
    THEN Result(so, <<>>, FALSE)
    ELSE LET pos == so.changePosition - 1
             change == so.changes[pos + 1]
             changedState == revertChanges(so.state, change)
         IN  IF changedState = NullTree
             THEN Result([so EXCEPT !.changePosition = pos], <<>>, FALSE)
             ELSE Result([so EXCEPT !.changePosition = pos,
                                    !.state = setState(changedState)],
                         <<Event("undo", change,
                                 [so EXCEPT !.changePosition = pos])>>, FALSE)

\* undo()
undo(so) ==
    IF so.changePosition <= 0 \/ so.changePosition > Len(so.changes)
    THEN Result(so, <<>>, FALSE)
    ELSE LET pos == so.changePosition - 1
             change == so.changes[pos + 1]
             changedState == revertChanges(so.state, change)
         IN  IF changedState = NullTree
             THEN Result([so EXCEPT !.changePosition = pos], <<>>, FALSE)
             ELSE LET undone == [so EXCEPT !.changePosition = pos,
                                           !.state = setState(changedState)]
                  IN  Result(undone, <<Event("undo", change, undone)>>, FALSE)

\* redo() that reads changes[changePosition] without advancing the position
redoWithoutAdvance(so) ==
    IF so.changePosition >= Len(so.changes)
    THEN Result(so, <<>>, FALSE)
    ELSE LET change == so.changes[so.changePosition + 1]
             changedState == applyChanges(so.state, change)
         IN  IF changedState = NullTree
             THEN Result(so, <<>>, FALSE)
             ELSE LET redone == [so EXCEPT !.state = setState(changedState)]
                  IN  Result(redone, <<Event("redo", change, redone)>>, FALSE)

\* redo()
redo(so) ==
    IF so.changePosition >= Len(so.changes)
    THEN Result(so, <<>>, FALSE)
    ELSE LET change == so.changes[so.changePosition + 1]
             pos == so.changePosition + 1
             changedState == applyChanges(so.state, change)
         IN  IF changedState = NullTree
             THEN Result([so EXCEPT !.changePosition = pos], <<>>, FALSE)
             ELSE LET redone == [so EXCEPT !.changePosition = pos,
                                           !.state = setState(changedState)]
                  IN  Result(redone, <<Event("redo", change, redone)>>, FALSE)

\* undoable() / redoable()
undoable(so) == IF so.changePosition = 0 THEN FALSE ELSE TRUE
redoable(so) == IF so.changePosition >= Len(so.changes) THEN FALSE ELSE TRUE

\* the set trap that emits before it calls add(change)
setEmitsBeforeAdd(so, path, value) ==
    IF so.queuedState # NullTree /\ so.queueConfig # "true"
    THEN Result([so EXCEPT !.state = ReflectSet(so.state, path, value)], <<>>, FALSE)
    ELSE LET lastState == cloneObject(so.state)
             written == [so EXCEPT !.state = ReflectSet(so.state, path, value)]
             change == diff(lastState, written.state)
             added == IF so.queuedState = NullTree THEN add(written, change)
                                                   ELSE written
         IN  IF change # NullChange
             THEN Result(added, <<Event("change", change, written)>>, FALSE)
             ELSE Result(written, <<>>, FALSE)

\* the set trap that calls add(change) whether or not a batch is open
setAddsInBatch(so, path, value) ==
    IF so.queuedState # NullTree /\ so.queueConfig # "true"
    THEN Result([so EXCEPT !.state = ReflectSet(so.state, path, value)], <<>>, FALSE)
    ELSE LET lastState == cloneObject(so.state)
             written == [so EXCEPT !.state = ReflectSet(so.state, path, value)]
             change == diff(lastState, written.state)
             added == add(written, change)
         IN  IF change # NullChange
             THEN Result(added, <<Event("change", change, added)>>, FALSE)
             ELSE Result(written, <<>>, FALSE)

\* the set trap without its test of the diff against null
setWithoutNullTest(so, path, value) ==
    IF so.queuedState # NullTree /\ so.queueConfig # "true"
    THEN Result([so EXCEPT !.state = ReflectSet(so.state, path, value)], <<>>, FALSE)
    ELSE LET lastState == cloneObject(so.state)
             written == [so EXCEPT !.state = ReflectSet(so.state, path, value)]
             change == diff(lastState, written.state)
             added == IF so.queuedState = NullTree THEN add(written, change)
                                                   ELSE written
         IN  Result(added, <<Event("change", change, added)>>, FALSE)

\* the set trap without its early return for a batch that does not emit
setWithoutBatchTest(so, path, value) ==
    LET lastState == cloneObject(so.state)
        written == [so EXCEPT !.state = ReflectSet(so.state, path, value)]
        change == diff(lastState, written.state)
        added == IF so.queuedState = NullTree THEN add(written, change) ELSE written
    IN  IF change # NullChange
        THEN Result(added, <<Event("change", change, added)>>, FALSE)
        ELSE Result(written, <<>>, FALSE)

\* the proxy's set trap
set(so, path, value) ==
    IF so.queuedState # NullTree /\ so.queueConfig # "true"
    THEN Result([so EXCEPT !.state = ReflectSet(so.state, path, value)], <<>>, FALSE)
    ELSE LET lastState == cloneObject(so.state)
             written == [so EXCEPT !.state = ReflectSet(so.state, path, value)]
             change == diff(lastState, written.state)
             added == IF so.queuedState = NullTree THEN add(written, change)
                                                   ELSE written
         IN  IF change # NullChange
             THEN Result(added, <<Event("change", change, added)>>, FALSE)
             ELSE Result(written, <<>>, FALSE)

\* freeze() / thaw() and the frozen test in front of write, undo and redo
freeze(so) == Result([so EXCEPT !.frozen = TRUE], <<>>, FALSE)
thaw(so) == Result([so EXCEPT !.frozen = FALSE], <<>>, FALSE)
whenThawedOrNot(so, r) == r
whenThawed(so, r) == IF so.frozen THEN Result(so, <<>>, FALSE) ELSE r

\* what a caller reaches: the write through the proxy, undo() and redo()
callSet(so, path, value) == whenThawed(so, set(so, path, value))
callUndo(so) == whenThawed(so, undo(so))
callRedo(so) == whenThawed(so, redo(so))

\* store() that leaves the position out of the representation
storeWithoutPosition(so) ==
    [state |-> cloneObject(so.state), changes |-> so.changes,
     changePosition |-> 0, frozen |-> so.frozen]

\* store(): a cloned representation of the tree, the history, the position
\* and the frozen flag
store(so) ==
    [state |-> cloneObject(so.state), changes |-> so.changes,
     changePosition |-> so.changePosition, frozen |-> so.frozen]

\* restore(o): every part of the representation replaces the instance's own
restore(so, o) ==
    [so EXCEPT !.state = setState(o.state), !.changes = o.changes,
               !.changePosition = o.changePosition, !.frozen = o.frozen]

\* get(pos): a clone of the tree walked from the current one to position pos,
\* reverting the records from changePosition down to pos or applying the
\* records from changePosition up to pos; null once the provider answers null
RECURSIVE walk(_, _, _, _)
walk(tree, cs, from, to) ==
    IF tree = NullTree \/ from = to THEN tree
    ELSE IF to < from
         THEN walk(revertChanges(tree, cs[from]), cs, from - 1, to)
         ELSE walk(applyChanges(tree, cs[from + 1]), cs, from + 1, to)

getAt(so, pos) == walk(cloneObject(so.state), so.changes, so.changePosition, pos)

\* a get trap that hands out the stored object itself: return obj[prop]
getUnwrapped(tree, prop) == IF tree[prop] = Container THEN "raw" ELSE "value"

\* the proxy's get trap: a value that is no object is returned as it is, an
\* object (its property being configurable) wrapped by setProxy
get(tree, prop) == IF tree[prop] = Container THEN "proxy" ELSE "value"

\* myObject.state.<path> = value: a field of the root goes to the set trap of
\* the root's proxy, a field of a nested object to what the get trap gave
write(so, path, value) ==
    IF Parent(path) = "" THEN callSet(so, path, value)
    ELSE IF get(so.state, Parent(path)) = "proxy" THEN callSet(so, path, value)
    ELSE Result([so EXCEPT !.state = ReflectSet(so.state, path, value)], <<>>, FALSE)

\* -------------------------------------------------------------- the calls
NoBatch == [pure |-> FALSE, events |-> 0]

NextRun(tag) ==
    IF run = <<"off">> \/ tag = "off" \/ Len(run) >= MaxRun THEN <<"off">>
    ELSE Append(run, tag)

RunTag(call, r) ==
    IF frozen \/ queuedState # NullTree THEN "off"
    ELSE IF call = "write" THEN (IF r.ev # <<>> THEN "w" ELSE "n")
    ELSE IF call = "undo" THEN "u"
    ELSE "off"

Count(ev) == Cardinality({i \in 1..Len(ev) : ev[i].type = "change"})

NextBatch(call, r) ==
    IF call = "queue" THEN [pure |-> TRUE, events |-> 0]
    ELSE IF queuedState = NullTree THEN NoBatch
    ELSE [pure |-> batch.pure /\ call \in {"write", "unqueue"} /\ ~frozen,
          events |-> Min(MaxEvents, batch.events + Count(r.ev))]

Step(call, r) ==
    /\ state' = r.so.state
    /\ changes' = r.so.changes
    /\ changePosition' = r.so.changePosition
    /\ queuedState' = r.so.queuedState
    /\ queueConfig' = r.so.queueConfig
    /\ frozen' = r.so.frozen
    /\ emitted' = r.ev
    /\ thrown' = r.err
    /\ op' = call
    /\ run' = NextRun(RunTag(call, r))
    /\ batch' = NextBatch(call, r)
    /\ queues' = IF call = "queue" THEN queues + 1 ELSE queues
    /\ UNCHANGED baseline

Init ==
    /\ baseline \in InitTrees
    /\ state = construct(baseline).state
    /\ changes = construct(baseline).changes
    /\ changePosition = construct(baseline).changePosition
    /\ queuedState = construct(baseline).queuedState
    /\ queueConfig = construct(baseline).queueConfig
    /\ frozen = construct(baseline).frozen
    /\ emitted = <<>>
    /\ thrown = FALSE
    /\ op = "new"
    /\ run = <<>>
    /\ batch = NoBatch
    /\ queues = 0
    /\ view = "none"

\* The assignments a caller can make: a field of the root, or a field of a
\* nested object that is there to be read through the proxy.
Writable(tree, path, value) ==
    IF Parent(path) = "" THEN TRUE
    ELSE tree[Parent(path)] = Container /\ value.v \in Scalars

\* The held proxy after the field it was read from is assigned or deleted:
\* its target has left the tree, and the caller is taken to let go of it.
viewAfterAssign(path) ==
    IF view = "live" /\ path = "c" /\ ~frozen THEN "none" ELSE view

\* The held proxy after undo() or redo(): this.state = changedState puts a
\* clone in place of the tree, the proxy's target stays the object it was.
viewAfterSetter(r) ==
    IF view = "live" /\ r.ev # <<>> THEN "stale" ELSE view

\* myObject.state.<path> = value
Write ==
    \E path \in Paths, value \in Values :
        /\ changePosition < MaxChanges
        /\ Writable(state, path, value)
        /\ Step("write", write(Self, path, value))
        /\ view' = viewAfterAssign(path)

Undo == Step("undo", callUndo(Self)) /\ view' = viewAfterSetter(callUndo(Self))

Redo == Step("redo", callRedo(Self)) /\ view' = viewAfterSetter(callRedo(Self))

Queue ==
    /\ queues < MaxQueues
    /\ \E conf \in {Undefined, "true", "false"} : Step("queue", queue(Self, conf))
    /\ UNCHANGED view

Unqueue ==
    /\ changePosition < MaxChanges
    /\ Step("unqueue", unqueue(Self))
    /\ UNCHANGED view

Freeze == Step("freeze", freeze(Self)) /\ UNCHANGED view

Thaw == Step("thaw", thaw(Self)) /\ UNCHANGED view

Next == Write \/ Undo \/ Redo \/ Queue \/ Unqueue \/ Freeze \/ Thaw

Spec == Init /\ [][Next]_vars

\* myObject.queue(conf) once more while the batch begun by queue() is open
Requeue ==
    /\ queuedState # NullTree
    /\ queues <= MaxQueues
    /\ \E conf \in {Undefined, "true", "false"} : Step("queue", queue(Self, conf))
    /\ UNCHANGED view

NextNested == Next \/ Requeue

SpecNested == Init /\ [][NextNested]_vars

\* The set trap of a proxy whose target is an object of a tree that has been
\* replaced: Reflect.set(obj, prop, value) writes to that object, no part of
\* instance._state, so the trap diffs the clone of the tree against the tree.
setDetached(so, path, value) ==
    IF so.queuedState # NullTree /\ so.queueConfig # "true"
    THEN Result(so, <<>>, FALSE)
    ELSE LET lastState == cloneObject(so.state)
             change == diff(lastState, so.state)
             added == IF so.queuedState = NullTree THEN add(so, change) ELSE so
         IN  IF change # NullChange
             THEN Result(added, <<Event("change", change, added)>>, FALSE)
             ELSE Result(so, <<>>, FALSE)

\* held.x = value, held being the proxy of state.c read earlier
writeView(so, held, value) ==
    IF held = "live" THEN callSet(so, "c.x", value)
    ELSE whenThawed(so, setDetached(so, "c.x", value))

\* held = myObject.state.c
GetView ==
    /\ view # "live"
    /\ get(state, "c") = "proxy"
    /\ view' = "live"
    /\ UNCHANGED <<state, changes, changePosition, queuedState, queueConfig,
                   frozen, emitted, thrown, baseline, op, run, batch, queues>>

\* held.x = value
WriteView ==
    \E value \in Values :
        /\ view # "none"
        /\ value.v \in Scalars
        /\ changePosition < MaxChanges
        /\ Step("writeView", writeView(Self, view, value))
        /\ UNCHANGED view

NextView == Next \/ GetView \/ WriteView

SpecView == Init /\ [][NextView]_vars

\* Reflect.deleteProperty(obj, prop): the field and what is below it are gone
ReflectDelete(tree, path) ==
    [p \in Paths |-> IF p = path \/ Parent(p) = path THEN Undefined ELSE tree[p]]

\* delete on the proxy: the field is deleted from the target and nothing else
\* is done (no clone, no diff, no add, no emit)
deleteProperty(so, path) ==
    Result([so EXCEPT !.state = ReflectDelete(so.state, path)], <<>>, FALSE)

\* delete myObject.state.<path>, on a container that is not frozen
Delete ==
    \E path \in Paths :
        /\ ~frozen
        /\ IF Parent(path) = "" THEN TRUE ELSE get(state, Parent(path)) = "proxy"
        /\ Step("delete", deleteProperty(Self, path))
        /\ view' = viewAfterAssign(path)

NextDelete == Next \/ Delete

SpecDelete == Init /\ [][NextDelete]_vars

\* ------------------------------------------------------------ properties
TypeOK ==
    /\ state \in [Paths -> Scalars \cup {Undefined, Container}]
    /\ changePosition \in Int
    /\ frozen \in BOOLEAN

\* The run so far is N writes followed by N undos.
WritesThenUndos(r) ==
    \E n \in 1..MaxRun :
        /\ Len(r) = 2 * n
        /\ \A i \in 1..n : r[i] \in {"w", "n"}
        /\ \A i \in (n + 1)..(2 * n) : r[i] = "u"

\* C1: from a fresh container, N field writes followed by N calls to undo()
\* leave the tree equal to the tree before the first write, at position 0.
C1_WritesThenUndosRestore ==
    WritesThenUndos(run) => state = construct(baseline).state /\ changePosition = 0

C1_Witness ==
    /\ run = <<"w", "w", "u", "u">>
    /\ state = construct(baseline).state
    /\ changePosition = 0
    /\ Len(changes) = 2

\* C2: where undo() takes effect, undo() followed at once by redo() gives
\* back the tree, the position and the history from before the undo.
C2_UndoRedoRoundTrip ==
    LET u == callUndo(Self) IN
    u.ev # <<>> =>
        LET r == callRedo(u.so) IN
        /\ r.so.state = state
        /\ r.so.changePosition = changePosition
        /\ r.so.changes = changes

C2_Witness ==
    /\ op = "undo"
    /\ emitted # <<>>
    /\ callRedo(Self).ev # <<>>
    /\ callRedo(Self).so.state # state

\* A call that committed a ChangeRecord: a write outside a batch that made a
\* difference, or an unqueue() that found one.
Committed ==
    /\ emitted # <<>>
    /\ \/ op = "write" /\ queuedState = NullTree
       \/ op = "unqueue"

\* C3: a commit drops every record at index >= position, then appends: after
\* it position = len(changes) and redoable() is false; after write; write;
\* undo; write the history has length 2 and redoable() is false.
C3_CommitTruncates ==
    [][ /\ Committed' =>
            /\ changes' = SubSeq(changes, 1, changePosition) \o <<emitted'[1].change>>
            /\ changePosition' = Len(changes')
            /\ ~redoable(Self')
        /\ run' = <<"w", "w", "u", "w">> => Len(changes') = 2 /\ ~redoable(Self')
      ]_vars

C3_Witness ==
    /\ run = <<"w", "w", "u", "w">>
    /\ Committed
    /\ Len(changes) = 2

\* C4: a write that leaves the tree equal to what it was commits nothing,
\* leaves changes and position alone and publishes no notification.
C4_NoOpWrite ==
    [][ op' = "write" /\ state' = state =>
            /\ changes' = changes
            /\ changePosition' = changePosition
            /\ emitted' = <<>>
      ]_vars

C4_Witness ==
    /\ op = "write"
    /\ ~frozen
    /\ queuedState = NullTree
    /\ emitted = <<>>

QuietBatchOfWrites ==
    /\ queuedState # NullTree
    /\ queueConfig = "false"
    /\ batch.pure
    /\ ~frozen

\* C6: queue() without emit, K >= 1 writes with a net change, unqueue():
\* the writes commit nothing and publish nothing; unqueue() commits exactly
\* one record, the diff from the queued tree to the tree, the position
\* advances by 1 and one change event is published in the whole batch.
C6_BatchIsOneRecord ==
    [][ /\ QuietBatchOfWrites /\ op' = "write" =>
            /\ changes' = changes
            /\ changePosition' = changePosition
            /\ emitted' = <<>>
            /\ batch'.events = 0
        /\ QuietBatchOfWrites /\ op' = "unqueue" /\ state # queuedState =>
            /\ changes' = SubSeq(changes, 1, changePosition)
                              \o <<diff(queuedState, state)>>
            /\ changePosition' = changePosition + 1
            /\ emitted' = <<Event("change", diff(queuedState, state), Self')>>
            /\ batch'.events = 1
            /\ state' = state
      ]_vars

C6_Witness ==
    /\ op = "unqueue"
    /\ batch.pure
    /\ batch.events = 1
    /\ queueConfig = "false"
    /\ emitted # <<>>
    /\ changePosition = 2

\* A batch in which every call since queue() was a write, at least one, made
\* while the container was not frozen.
BatchOfWrites ==
    /\ queuedState # NullTree
    /\ batch.pure
    /\ op = "write"
    /\ ~frozen

\* C7 as claimed: after unqueue(), one undo() gives the tree queue() captured
\* and a redo() after it the tree as it was at unqueue().
C7_BatchIsOneStep ==
    [][ BatchOfWrites /\ op' = "unqueue" =>
            LET u == callUndo(Self') IN
            /\ u.so.state = queuedState
            /\ callRedo(u.so).so.state = state'
      ]_vars

\* C7, amended: the same for a batch whose writes made a net change.
C7_ChangingBatchIsOneStep ==
    [][ BatchOfWrites /\ op' = "unqueue" /\ state # queuedState =>
            LET u == callUndo(Self') IN
            /\ u.ev # <<>>
            /\ u.so.state = queuedState
            /\ callRedo(u.so).so.state = state'
            /\ callRedo(u.so).so.changePosition = changePosition'
      ]_vars

C7_Witness ==
    /\ op = "unqueue"
    /\ batch.pure
    /\ emitted # <<>>
    /\ callUndo(Self).ev # <<>>
    /\ callUndo(Self).so.state # state
    /\ callRedo(callUndo(Self).so).so.state = state

\* C8: in every reachable state 0 <= position <= len(changes).
C8_PositionInRange ==
    0 <= changePosition /\ changePosition <= Len(changes)

\* an undo() that passed its test and got null from the provider
C8_Witness ==
    /\ op = "undo"
    /\ ~frozen
    /\ emitted = <<>>
    /\ changePosition > 0

\* changes[1..n] applied in order to a tree; null once one does not apply
RECURSIVE Replay(_, _, _)
Replay(tree, cs, n) ==
    IF n = 0 THEN tree
    ELSE LET t == Replay(tree, cs, n - 1) IN
         IF t = NullTree THEN NullTree ELSE applyChanges(t, cs[n])

\* C9: with no batch active, the tree is what changes[0..position) applied
\* in order to the tree given to the constructor yields.
C9_TreeIsReplay ==
    queuedState = NullTree =>
        state = Replay(construct(baseline).state, changes, changePosition)

\* C10: an undo() to which the provider answers null changes nothing: the
\* position, the history and the tree stay, and no undo event is published.
C10_FailedUndoIsNoOp ==
    [][ /\ op' = "undo"
        /\ ~frozen
        /\ changePosition > 0
        /\ changePosition <= Len(changes)
        /\ revertChanges(state, changes[changePosition]) = NullTree
        => /\ changePosition' = changePosition
           /\ changes' = changes
           /\ state' = state
           /\ emitted' = <<>>
      ]_vars

\* C11: a redo() to which the provider answers null does not advance: the
\* position, the history and the tree stay, and no redo event is published.
C11_FailedRedoIsNoOp ==
    [][ /\ op' = "redo"
        /\ ~frozen
        /\ changePosition >= 0
        /\ changePosition < Len(changes)
        /\ applyChanges(state, changes[changePosition + 1]) = NullTree
        => /\ changePosition' = changePosition
           /\ changes' = changes
           /\ state' = state
           /\ emitted' = <<>>
      ]_vars

\* C12: unqueue() with no batch open throws and changes nothing and publishes
\* nothing; so does an unqueue() that follows an unqueue(); nothing else throws.
C12_UnqueueWithoutQueueThrows ==
    [][ /\ op' = "unqueue" /\ queuedState = NullTree =>
            /\ thrown'
            /\ Self' = Self
            /\ emitted' = <<>>
        /\ op' = "unqueue" /\ op = "unqueue" => thrown' /\ Self' = Self
        /\ thrown' => op' = "unqueue" /\ queuedState = NullTree
      ]_vars

C12_Witness ==
    /\ op = "unqueue"
    /\ thrown
    /\ queueConfig # Undefined
    /\ changePosition > 0

\* C13: queue() while a batch is open fails and leaves the queued tree and
\* the configuration of the open batch as they are.
C13_NestedQueueFails ==
    [][ op' = "queue" /\ queuedState # NullTree =>
            /\ thrown'
            /\ queuedState' = queuedState
            /\ queueConfig' = queueConfig
      ]_vars

\* C14: undoable() is true exactly when position > 0 and the container is not
\* frozen; redoable() exactly when position < len(changes) and not frozen.
C14_UndoableRedoable ==
    /\ undoable(Self) = (changePosition > 0 /\ ~frozen)
    /\ redoable(Self) = (changePosition < Len(changes) /\ ~frozen)

\* two instances show the same tree and position, and still do after every
\* sequence of at most n calls of undo() and redo() made on both
RECURSIVE sameAfterCalls(_, _, _)
sameAfterCalls(a, b, n) ==
    /\ a.state = b.state
    /\ a.changePosition = b.changePosition
    /\ n > 0 => /\ sameAfterCalls(callUndo(a).so, callUndo(b).so, n - 1)
                /\ sameAfterCalls(callRedo(a).so, callRedo(b).so, n - 1)

Restored(tree) == restore(construct(tree), store(Self))

C18_WriteCommitsThenEmits ==
    [][ op' = "write" /\ ~frozen /\ queuedState = NullTree /\ state' # state =>
            /\ changes' = SubSeq(changes, 1, changePosition)
                              \o <<diff(state, state')>>
            /\ changePosition' = changePosition + 1
            /\ Len(emitted') = 1
            /\ emitted'[1].type = "change"
            /\ emitted'[1].change = diff(state, state')
            /\ emitted'[1].position = changePosition + 1
            /\ emitted'[1].state = state'
            /\ changes'[emitted'[1].position] = emitted'[1].change
      ]_vars

\* a write after an undo(): the record replaces the one that was redoable
C18_Witness ==
    /\ op = "write"
    /\ ~frozen
    /\ queuedState = NullTree
    /\ queues = 0
    /\ Len(emitted) = 1
    /\ emitted[1].position = 1
    /\ changePosition = 1
    /\ Len(changes) = 1
    /\ run = <<"w", "u", "w">>

\* C19: in a batch begun with emit: true a write that changes the tree emits
\* one change event and leaves the history and the position as they are; the
\* history changes at unqueue() only, which commits at most one record.
C19_EmittingBatch ==
    [][ queuedState # NullTree /\ queueConfig = "true" /\ ~frozen =>
            /\ op' = "write" /\ state' # state =>
                   /\ emitted' = <<Event("change", diff(state, state'), Self')>>
                   /\ changes' = changes
                   /\ changePosition' = changePosition
            /\ op' # "unqueue" => changes' = changes
            /\ op' = "unqueue" =>
                   \/ changes' = changes /\ changePosition' = changePosition
                   \/ /\ changes' = SubSeq(changes, 1, changePosition)
                                        \o <<diff(queuedState, state)>>
                      /\ changePosition' = changePosition + 1
      ]_vars

\* two writes in an emitting batch have each emitted, nothing is committed
C19_Witness ==
    /\ op = "write"
    /\ queuedState # NullTree
    /\ queueConfig = "true"
    /\ ~frozen
    /\ Len(emitted) = 1
    /\ batch.events = 2
    /\ changes = <<>>
    /\ state # queuedState

C21_StaleViewWrites ==
    [][ /\ op' = "writeView"
        /\ view = "stale"
        /\ ~frozen
        /\ queuedState = NullTree
        /\ state["c"] = Container
        /\ state["c.x"] \notin Scalars
        => /\ state'["c.x"] \in Scalars
           /\ changePosition' = changePosition + 1
           /\ Len(changes') = changePosition + 1
           /\ Len(emitted') = 1
      ]_vars

\* C22: deleting a field that is there, not frozen and no batch open, commits
\* one record at the position and adds 1 to the position, and undo() then
\* gives the tree from before the deletion.
C22_DeleteIsCommitted ==
    [][ op' = "delete" /\ ~frozen /\ queuedState = NullTree /\ state' # state =>
            /\ changePosition' = changePosition + 1
            /\ Len(changes') = changePosition + 1
            /\ callUndo(Self').so.state = state
      ]_vars
====
